---- MODULE Spec2Model ----
(***************************************************************************)
(* Model of run.py: the /proxy and /download handlers of the HLS relay.    *)
(* A Python str is a sequence of one-character strings.  A request is     *)
(* followed from its arrival (pc = "received") through the fetches to its  *)
(* response (pc = "done").  The header overrides and the cookie of         *)
(* forward_request influence no value modelled here and are left out.      *)
(***************************************************************************)
EXTENDS Integers, Sequences, FiniteSets, TLC

VARIABLES pc, route, u, expected, hops, target, attempts, r, resp

vars == <<pc, route, u, expected, hops, target, attempts, r, resp>>

(***************************************************************************)
(* Bounds of the model.                                                    *)
(***************************************************************************)
MaxLines == 2

MaxHops == 1

(***************************************************************************)
(* str primitives.  Ascii[n - 31] is the character of code n (GRAVE is the   *)
(* name of character 96).                                                  *)
(***************************************************************************)
Ascii == <<" ","!","\"","#","$","%","&","'","(",")","*","+",",","-",".","/","0","1","2","3","4","5","6","7","8","9",":",";","<","=",">","?","@","A","B","C","D","E","F","G","H","I","J","K","L","M","N","O","P","Q","R","S","T","U","V","W","X","Y","Z","[","\\","]","^","_","GRAVE","a","b","c","d","e","f","g","h","i","j","k","l","m","n","o","p","q","r","s","t","u","v","w","x","y","z","{","|","}","~">>

LF == "\n"

CR == "\r"

REPL == "<?>"

CharSet == {Ascii[i] : i \in 1..Len(Ascii)} \cup {LF, CR}

Ord == [c \in CharSet |-> IF c = LF THEN 10 ELSE IF c = CR THEN 13 ELSE 31 + (CHOOSE i \in 1..Len(Ascii) : Ascii[i] = c)]

Chr(n) == IF n = 10 THEN LF ELSE IF n = 13 THEN CR ELSE IF n >= 32 /\ n <= 126 THEN Ascii[n - 31] ELSE REPL

HexDigits == <<"0","1","2","3","4","5","6","7","8","9","A","B","C","D","E","F">>

IsHex(c) == c \in CharSet /\ (Ord[c] \in 48..57 \/ Ord[c] \in 65..70 \/ Ord[c] \in 97..102)

HexVal(c) == IF Ord[c] <= 57 THEN Ord[c] - 48 ELSE IF Ord[c] <= 70 THEN Ord[c] - 55 ELSE Ord[c] - 87

IsAlpha(c) == c \in CharSet /\ (Ord[c] \in 65..90 \/ Ord[c] \in 97..122)

IsDigit(c) == c \in CharSet /\ Ord[c] \in 48..57

IsSpace(c) == c \in {" ", "\t", LF, CR}

LowerChar(c) == IF c \in CharSet /\ Ord[c] \in 65..90 THEN Chr(Ord[c] + 32) ELSE c

Lower(s) == [i \in 1..Len(s) |-> LowerChar(s[i])]

StartsWith(s, p) == Len(s) >= Len(p) /\ SubSeq(s, 1, Len(p)) = p

EndsWith(s, p) == Len(s) >= Len(p) /\ SubSeq(s, Len(s) - Len(p) + 1, Len(s)) = p

Contains(s, p) == \E i \in 1..(Len(s) - Len(p) + 1) : SubSeq(s, i, i + Len(p) - 1) = p

From(s, i) == SubSeq(s, i, Len(s))

\* str.find for a single character: the first index holding c, 0 when absent
Find(s, c) == IF \E i \in 1..Len(s) : s[i] = c THEN CHOOSE i \in 1..Len(s) : s[i] = c /\ \A j \in 1..(i - 1) : s[j] # c ELSE 0

\* str.rfind for a single character
RFind(s, c) == IF \E i \in 1..Len(s) : s[i] = c THEN CHOOSE i \in 1..Len(s) : s[i] = c /\ \A j \in (i + 1)..Len(s) : s[j] # c ELSE 0

\* the first index holding a character of cs, Len(s) + 1 when there is none
FindAny(s, cs) == IF \E i \in 1..Len(s) : s[i] \in cs THEN CHOOSE i \in 1..Len(s) : s[i] \in cs /\ \A j \in 1..(i - 1) : s[j] \notin cs ELSE Len(s) + 1

\* the part of s before, and after, the first c
BeforeChar(s, c) == IF Find(s, c) = 0 THEN s ELSE SubSeq(s, 1, Find(s, c) - 1)

AfterChar(s, c) == IF Find(s, c) = 0 THEN <<>> ELSE From(s, Find(s, c) + 1)

RECURSIVE Split(_, _)
\* str.split(c)
Split(s, c) == IF Find(s, c) = 0 THEN <<s>> ELSE <<BeforeChar(s, c)>> \o Split(AfterChar(s, c), c)

\* str.rsplit(c, 1)[0]
RSplitHead(s, c) == IF RFind(s, c) = 0 THEN s ELSE SubSeq(s, 1, RFind(s, c) - 1)

RECURSIVE Join(_, _)
\* sep.join(parts)
Join(parts, sep) == IF parts = <<>> THEN <<>> ELSE IF Len(parts) = 1 THEN parts[1] ELSE parts[1] \o sep \o Join(Tail(parts), sep)

RECURSIVE LStrip(_)
LStrip(s) == IF s # <<>> /\ IsSpace(s[1]) THEN LStrip(Tail(s)) ELSE s

RECURSIVE RStrip(_)
RStrip(s) == IF s # <<>> /\ IsSpace(s[Len(s)]) THEN RStrip(SubSeq(s, 1, Len(s) - 1)) ELSE s

\* str.strip()
Strip(s) == RStrip(LStrip(s))

RECURSIVE Splitlines(_)
\* str.splitlines(): breaks at \n, \r and \r\n, no empty last line after a final break
Splitlines(s) == IF s = <<>> THEN <<>> ELSE LET k == FindAny(s, {LF, CR}) IN IF k > Len(s) THEN <<s>> ELSE <<SubSeq(s, 1, k - 1)>> \o Splitlines(From(s, IF s[k] = CR /\ k < Len(s) /\ s[k + 1] = LF THEN k + 2 ELSE k + 1))

(***************************************************************************)
(* urllib.parse.quote with an empty safe set and urllib.parse.unquote.     *)
(***************************************************************************)
IsUnreserved(c) == IsAlpha(c) \/ IsDigit(c) \/ c \in {"_", ".", "-", "~"}

QuoteChar(c) == IF IsUnreserved(c) THEN <<c>> ELSE <<"%", HexDigits[(Ord[c] \div 16) + 1], HexDigits[(Ord[c] % 16) + 1]>>

RECURSIVE quote(_)
quote(s) == IF s = <<>> THEN <<>> ELSE QuoteChar(s[1]) \o quote(Tail(s))

RECURSIVE unquote(_)
unquote(s) == IF s = <<>> THEN <<>> ELSE IF s[1] = "%" /\ Len(s) >= 3 /\ IsHex(s[2]) /\ IsHex(s[3]) THEN <<Chr(16 * HexVal(s[2]) + HexVal(s[3]))>> \o unquote(From(s, 4)) ELSE <<s[1]>> \o unquote(Tail(s))

\* the query-string decoding of the front door behind request.args: + is a space, then percent-decoding
args_decode(s) == unquote([i \in 1..Len(s) |-> IF s[i] = "+" THEN " " ELSE s[i]])

(***************************************************************************)
(* urllib.parse.urlsplit, urlunsplit and urljoin, as far as run.py uses    *)
(* them through urljoin(base, uri); path parameters (;) are not modelled.  *)
(***************************************************************************)
uses_relative == {<<>>, <<"h","t","t","p">>, <<"h","t","t","p","s">>, <<"f","t","p">>, <<"f","i","l","e">>}

uses_netloc == {<<>>, <<"h","t","t","p">>, <<"h","t","t","p","s">>, <<"f","t","p">>, <<"f","i","l","e">>}

IsSchemeChar(c) == IsAlpha(c) \/ IsDigit(c) \/ c \in {"+", "-", "."}

HasScheme(s) == Find(s, ":") > 1 /\ IsAlpha(s[1]) /\ \A i \in 1..(Find(s, ":") - 1) : IsSchemeChar(s[i])

\* the netloc of a rest that begins with //, up to the first of / ? #
NetlocOf(rest) == SubSeq(rest, 3, 2 + FindAny(From(rest, 3), {"/", "?", "#"}) - 1)

AfterNetloc(rest) == From(rest, 2 + FindAny(From(rest, 3), {"/", "?", "#"}))

\* the split of what follows the netloc into path, query and fragment
urlsplit_tail(sch, net, tail) == [scheme |-> sch, netloc |-> net, path |-> BeforeChar(BeforeChar(tail, "#"), "?"), query |-> AfterChar(BeforeChar(tail, "#"), "?"), fragment |-> AfterChar(tail, "#")]

urlsplit_rest(sch, rest) == IF StartsWith(rest, <<"/","/">>) THEN urlsplit_tail(sch, NetlocOf(rest), AfterNetloc(rest)) ELSE urlsplit_tail(sch, <<>>, rest)

urlsplit_stripped(url, scheme) == IF HasScheme(url) THEN urlsplit_rest(Lower(SubSeq(url, 1, Find(url, ":") - 1)), From(url, Find(url, ":") + 1)) ELSE urlsplit_rest(scheme, url)

urlsplit(raw, scheme) == urlsplit_stripped(LStrip(raw), scheme)

\* urlsplit raises ValueError("Invalid IPv6 URL") on a netloc with one bracket only
urlsplit_raises(url) == LET net == urlsplit(url, <<>>).netloc IN (Find(net, "[") > 0) # (Find(net, "]") > 0)

unsplit_fragment(url, fragment) == IF fragment # <<>> THEN url \o <<"#">> \o fragment ELSE url

unsplit_query(url, query) == IF query # <<>> THEN url \o <<"?">> \o query ELSE url

unsplit_scheme(scheme, url) == IF scheme # <<>> THEN scheme \o <<":">> \o url ELSE url

unsplit_netloc(scheme, netloc, path) == IF netloc # <<>> \/ (scheme # <<>> /\ scheme \in uses_netloc /\ ~StartsWith(path, <<"/","/">>)) THEN <<"/","/">> \o netloc \o (IF path # <<>> /\ path[1] # "/" THEN <<"/">> \o path ELSE path) ELSE path

urlunsplit(scheme, netloc, path, query, fragment) == unsplit_fragment(unsplit_query(unsplit_scheme(scheme, unsplit_netloc(scheme, netloc, path)), query), fragment)

\* segments[1:-1] = filter(None, segments[1:-1])
FilterMiddle(segs) == IF Len(segs) <= 2 THEN segs ELSE <<segs[1]>> \o SelectSeq(SubSeq(segs, 2, Len(segs) - 1), LAMBDA x : x # <<>>) \o <<segs[Len(segs)]>>

RECURSIVE ResolveDots(_, _)
\* the loop over segments that pops on .. and skips .
ResolveDots(segs, acc) == IF segs = <<>> THEN acc ELSE IF segs[1] = <<".",".">> THEN ResolveDots(Tail(segs), IF acc = <<>> THEN acc ELSE SubSeq(acc, 1, Len(acc) - 1)) ELSE IF segs[1] = <<".">> THEN ResolveDots(Tail(segs), acc) ELSE ResolveDots(Tail(segs), Append(acc, segs[1]))

base_parts_of(bp) == IF bp[Len(bp)] # <<>> THEN SubSeq(bp, 1, Len(bp) - 1) ELSE bp

resolved_path(segments, res) == IF segments[Len(segments)] \in {<<".">>, <<".",".">>} THEN Append(res, <<>>) ELSE res

or_slash(joined) == IF joined = <<>> THEN <<"/">> ELSE joined

resolve_segments(segments) == or_slash(Join(resolved_path(segments, ResolveDots(segments, <<>>)), <<"/">>))

urljoin_path(bpath, path) == IF path[1] = "/" THEN resolve_segments(Split(path, "/")) ELSE resolve_segments(FilterMiddle(base_parts_of(Split(bpath, "/")) \o Split(path, "/")))

\* urljoin once base (b) and url (p) are split
urljoin_parts(b, p, url) == IF p.scheme # b.scheme \/ p.scheme \notin uses_relative THEN url ELSE IF p.scheme \in uses_netloc /\ p.netloc # <<>> THEN urlunsplit(p.scheme, p.netloc, p.path, p.query, p.fragment) ELSE IF p.path = <<>> THEN urlunsplit(p.scheme, IF p.scheme \in uses_netloc THEN b.netloc ELSE p.netloc, b.path, IF p.query = <<>> THEN b.query ELSE p.query, p.fragment) ELSE urlunsplit(p.scheme, IF p.scheme \in uses_netloc THEN b.netloc ELSE p.netloc, urljoin_path(b.path, p.path), p.query, p.fragment)

urljoin_base(b, url) == urljoin_parts(b, urlsplit(url, b.scheme), url)

urljoin(base, url) == IF base = <<>> THEN url ELSE IF url = <<>> THEN base ELSE urljoin_base(urlsplit(base, <<>>), url)

urljoin_raises(base, url) == base # <<>> /\ url # <<>> /\ (urlsplit_raises(base) \/ urlsplit_raises(url))

(***************************************************************************)
(* run.py                                                                  *)
(***************************************************************************)
resolve_absolute(uri, base) == IF StartsWith(uri, <<"h","t","t","p",":","/","/">>) \/ StartsWith(uri, <<"h","t","t","p","s",":","/","/">>) THEN uri ELSE urljoin(base, uri)

resolve_raises(uri, base) == ~(StartsWith(uri, <<"h","t","t","p",":","/","/">>) \/ StartsWith(uri, <<"h","t","t","p","s",":","/","/">>)) /\ urljoin_raises(base, uri)

\* base = target.rsplit("/", 1)[0] + "/"
base_of(t) == RSplitHead(t, "/") \o <<"/">>

\* if absu.startswith("http://"): absu = "https://" + absu[len("http://"):]
prefer_https(absu) == IF StartsWith(absu, <<"h","t","t","p",":","/","/">>) THEN <<"h","t","t","p","s",":","/","/">> \o From(absu, Len(<<"h","t","t","p",":","/","/">>) + 1) ELSE absu

\* absu of one URI line
absu_of(ln, base) == prefer_https(resolve_absolute(Strip(ln), base))

\* one pass of the loop over text.splitlines()
rewrite_line(ln, base) == IF ln = <<>> \/ StartsWith(ln, <<"#">>) THEN ln ELSE <<"/","p","r","o","x","y","?","u","=">> \o quote(absu_of(ln, base))

rewrite_line_raises(ln, base) == ~(ln = <<>> \/ StartsWith(ln, <<"#">>)) /\ resolve_raises(Strip(ln), base)

rewrite_lines(lines, base) == [i \in 1..Len(lines) |-> rewrite_line(lines[i], base)]

out_lines(text, t) == rewrite_lines(Splitlines(text), base_of(t))

\* out = "\n".join(out_lines)
rewrite(text, t) == Join(out_lines(text, t), <<LF>>)

lines_raise(lines, base) == \E i \in 1..Len(lines) : rewrite_line_raises(lines[i], base)

rewrite_raises(text, t) == lines_raise(Splitlines(text), base_of(t))

\* the condition of the manifest branch, the same in both handlers
is_manifest(t, content_type) == EndsWith(Lower(t), <<".","m","3","u","8">>) \/ Contains(content_type, <<"m","p","e","g","u","r","l">>) \/ Contains(content_type, <<"a","p","p","l","i","c","a","t","i","o","n","/","v","n","d",".","a","p","p","l","e",".","m","p","e","g","u","r","l">>)

\* filename = urllib.parse.unquote(target.split("/")[-1].split("?")[0]) or "download"
Last(parts) == parts[Len(parts)]

or_download(name) == IF name = <<>> THEN <<"d","o","w","n","l","o","a","d">> ELSE name

filename_of(t) == or_download(unquote(Split(Last(Split(t, "/")), "?")[1]))

(***************************************************************************)
(* Optional values: None is the empty sequence, Some(x) holds x.           *)
(***************************************************************************)
Some(x) == <<x>>

IsNone(o) == o = <<>>

(***************************************************************************)
(* The inputs: the values of u that callers send, and what upstream can    *)
(* answer.                                                                 *)
(***************************************************************************)
Text7 == <<"#","E","X","T","M","3","U","\n","#","E","X","T","-","X","-","V","E","R","S","I","O","N",":","3","\n","s","e","g","1",".","t","s","\n","h","t","t","p",":","/","/","c","d","n",".","e","x","a","m","p","l","e",".","c","o","m","/","s","e","g","2",".","t","s","\n">>

Target7 == <<"h","t","t","p","s",":","/","/","o","r","i","g","i","n",".","e","x","a","m","p","l","e",".","c","o","m","/","p","a","t","h","/","i","n","d","e","x",".","m","3","u","8">>

UParams == {<<>>, Some(<<>>), Some(<<"s","e","g","1",".","t","s">>), Some(Target7), Some(<<"h","t","t","p","s",":","/","/","h","/","p","/","a",".","m","3","u","8">>), Some(<<"h","t","t","p","s",":","/","/","h","/","a",".","m","3","u","8","?","t","=","1">>), Some(<<"h","t","t","p","s",":","/","/","h","/","a",".","t","s","?","n","=","b",".","m","3","u","8">>), Some(<<"h","t","t","p","s",":","/","/","h","/","v","/","a",".","m","p","4","?","x","=","1">>), Some(<<"h","t","t","p","s",":","/","/","h","/","v","/","a",".","m","p","4","?","x","=","a","/","b">>), Some(<<"h","t","t","p","s",":","/","/","h","/","v","/","a","%","2","0","b",".","m","p","4">>), Some(<<"h","t","t","p","s",":","/","/","h","/","v","/">>)}

LineSet == {<<>>, <<"#","E">>, <<"s",".","t","s">>, <<"h","t","t","p","s",":","/","/","c","/","a","%","2","0","b">>, <<"/","/","[","x">>}

LineLists == UNION {[1..n -> LineSet] : n \in 0..MaxLines}

Texts == {Join(ls, <<LF>>) \o t : ls \in LineLists, t \in {<<>>, <<LF>>}} \cup {Text7, <<"#","E","\r","\n","s",".","t","s","\r","\n">>}

Statuses == {200, 206, 404}

ContentTypes == {<<>>, Some(<<"V","i","d","e","o","/","M","P","2","T">>), Some(<<"a","p","p","l","i","c","a","t","i","o","n","/","x","-","m","p","e","g","U","R","L">>)}

\* requests.get returned: status_code, the Content-Type header, the body; readable is
\* whether reading the body of a streamed response to its end succeeds
Responses(stream) == [ok : {TRUE}, status_code : Statuses, content_type : ContentTypes, text : Texts, readable : IF stream THEN BOOLEAN ELSE {TRUE}]

NoResponse == [ok |-> FALSE, status_code |-> 0, content_type |-> <<>>, text |-> <<>>, readable |-> FALSE]

\* requests.get raises on a URL without an http(s) scheme or without a host
fetchable(url) == urlsplit(url, <<>>).scheme \in {<<"h","t","t","p">>, <<"h","t","t","p","s">>} /\ urlsplit(url, <<>>).netloc # <<>>

\* the results forward_request can return: None on any exception of requests.get
forward_request(url, stream, verify) == {NoResponse} \cup (IF fetchable(url) THEN Responses(stream) ELSE {})

Attempt(url, stream, verify, res) == [url |-> url, stream |-> stream, verify |-> verify, ok |-> res.ok]

NoResp == [status |-> 0, kind |-> "none", content_type |-> <<>>, disposition |-> <<>>, body |-> <<>>, lazy |-> FALSE]

ErrorResp(code, kind, msg) == [status |-> code, kind |-> kind, content_type |-> <<>>, disposition |-> <<>>, body |-> msg, lazy |-> FALSE]

Init ==
    /\ pc = "idle"
    /\ route = "none"
    /\ u = <<>>
    /\ expected = <<>>
    /\ hops = 0
    /\ target = <<>>
    /\ attempts = <<>>
    /\ r = NoResponse
    /\ resp = NoResp

(***************************************************************************)
(* The front door: a caller asks for /proxy or /download with some u, or   *)
(* a player asks for a reference it read in a rewritten playlist.          *)
(***************************************************************************)
ClientRequest ==
    /\ pc \in {"idle", "done"}
    /\ \E rt \in {"proxy", "download"}, a \in UParams :
        /\ route' = rt
        /\ u' = a
    /\ pc' = "received"
    /\ expected' = <<>>
    /\ hops' = 0
    /\ target' = <<>>
    /\ attempts' = <<>>
    /\ r' = NoResponse
    /\ resp' = NoResp

ClientFollow ==
    /\ pc = "done"
    /\ resp.kind = "playlist"
    /\ hops < MaxHops
    /\ \E i \in 1..Len(Splitlines(resp.body)) :
        LET ref == Splitlines(resp.body)[i] IN
        /\ StartsWith(ref, <<"/","p","r","o","x","y","?","u","=">>)
        /\ u' = Some(args_decode(From(ref, Len(<<"/","p","r","o","x","y","?","u","=">>) + 1)))
        /\ expected' = Some(absu_of(Splitlines(r.text)[i], base_of(target)))
    /\ route' = "proxy"
    /\ hops' = hops + 1
    /\ pc' = "received"
    /\ target' = <<>>
    /\ attempts' = <<>>
    /\ r' = NoResponse
    /\ resp' = NoResp

(***************************************************************************)
(* proxy()                                                                 *)
(***************************************************************************)
ProxyPlaylistResponse(out) == [status |-> 200, kind |-> "playlist", content_type |-> Some(<<"a","p","p","l","i","c","a","t","i","o","n","/","v","n","d",".","a","p","p","l","e",".","m","p","e","g","u","r","l">>), disposition |-> <<>>, body |-> out, lazy |-> FALSE]

\* ProxyBinaryResponse with the status forced to 200
ProxyBinaryResponseOK(res, streamed) == [status |-> 200, kind |-> "binary", content_type |-> IF IsNone(res.content_type) THEN Some(<<"a","p","p","l","i","c","a","t","i","o","n","/","o","c","t","e","t","-","s","t","r","e","a","m">>) ELSE res.content_type, disposition |-> <<>>, body |-> res.text, lazy |-> streamed]

ProxyBinaryResponse(res, streamed) == [status |-> res.status_code, kind |-> "binary", content_type |-> IF IsNone(res.content_type) THEN Some(<<"a","p","p","l","i","c","a","t","i","o","n","/","o","c","t","e","t","-","s","t","r","e","a","m">>) ELSE res.content_type, disposition |-> <<>>, body |-> res.text, lazy |-> streamed]

\* lines 51-59: the check of u, the decoding of the target, the first fetch
ProxyStart ==
    /\ pc = "received"
    /\ route = "proxy"
    /\ IF IsNone(u) \/ u[1] = <<>>
       THEN /\ resp' = ErrorResp(400, "bad_request", <<"M","i","s","s","i","n","g"," ","u","r","l"," ","p","a","r","a","m"," ","'","u","'">>)
            /\ pc' = "done"
            /\ UNCHANGED <<target, attempts, r>>
       ELSE \E res \in forward_request(unquote(u[1]), TRUE, TRUE) :
            /\ target' = unquote(u[1])
            /\ attempts' = <<Attempt(unquote(u[1]), TRUE, TRUE, res)>>
            /\ r' = res
            /\ pc' = "proxy_fetched"
            /\ resp' = resp
    /\ UNCHANGED <<route, u, expected, hops>>

\* ProxyRetry with the retry still verifying TLS
ProxyRetryVerifying ==
    /\ pc = "proxy_fetched"
    /\ ~r.ok
    /\ \E res \in forward_request(target, TRUE, TRUE) :
        /\ attempts' = Append(attempts, Attempt(target, TRUE, TRUE, res))
        /\ r' = res
        /\ IF res.ok
           THEN pc' = pc /\ resp' = resp
           ELSE pc' = "done" /\ resp' = ErrorResp(502, "upstream_error", <<"U","p","s","t","r","e","a","m"," ","e","r","r","o","r">>)
    /\ UNCHANGED <<route, u, expected, hops, target>>

\* lines 60-63: the fetch without verification after a failed first fetch
ProxyRetry ==
    /\ pc = "proxy_fetched"
    /\ ~r.ok
    /\ \E res \in forward_request(target, TRUE, FALSE) :
        /\ attempts' = Append(attempts, Attempt(target, TRUE, FALSE, res))
        /\ r' = res
        /\ IF res.ok
           THEN pc' = pc /\ resp' = resp
           ELSE pc' = "done" /\ resp' = ErrorResp(502, "upstream_error", <<"U","p","s","t","r","e","a","m"," ","e","r","r","o","r">>)
    /\ UNCHANGED <<route, u, expected, hops, target>>

\* lines 65-99: the manifest branch or the binary branch
ProxyRespond ==
    /\ pc = "proxy_fetched"
    /\ r.ok
    /\ LET content_type == Lower(IF IsNone(r.content_type) THEN <<>> ELSE r.content_type[1]) IN
       resp' = IF is_manifest(target, content_type)
               THEN IF ~r.readable \/ rewrite_raises(r.text, target)
                    THEN ErrorResp(500, "rewrite_failed", <<"M","a","n","i","f","e","s","t"," ","r","e","w","r","i","t","e"," ","f","a","i","l","e","d">>)
                    ELSE ProxyPlaylistResponse(rewrite(r.text, target))
               ELSE ProxyBinaryResponse(r, attempts[Len(attempts)].stream)
    /\ pc' = "done"
    /\ UNCHANGED <<route, u, expected, hops, target, attempts, r>>

(***************************************************************************)
(* download()                                                              *)
(***************************************************************************)
DownloadPlaylistResponse(out, filename) == [status |-> 200, kind |-> "playlist", content_type |-> Some(<<"a","p","p","l","i","c","a","t","i","o","n","/","v","n","d",".","a","p","p","l","e",".","m","p","e","g","u","r","l">>), disposition |-> Some(filename), body |-> out, lazy |-> FALSE]

DownloadBinaryResponse(res, content_type, filename, streamed) == [status |-> res.status_code, kind |-> "binary", content_type |-> Some(content_type), disposition |-> Some(filename), body |-> res.text, lazy |-> streamed]

\* lines 104-108
DownloadStart ==
    /\ pc = "received"
    /\ route = "download"
    /\ IF IsNone(u) \/ u[1] = <<>>
       THEN /\ resp' = ErrorResp(400, "bad_request", <<"M","i","s","s","i","n","g"," ","u","r","l"," ","p","a","r","a","m"," ","'","u","'">>)
            /\ pc' = "done"
            /\ UNCHANGED <<target, attempts, r>>
       ELSE \E res \in forward_request(unquote(u[1]), FALSE, TRUE) :
            /\ target' = unquote(u[1])
            /\ attempts' = <<Attempt(unquote(u[1]), FALSE, TRUE, res)>>
            /\ r' = res
            /\ pc' = "download_fetched"
            /\ resp' = resp
    /\ UNCHANGED <<route, u, expected, hops>>

\* lines 109-112
DownloadRetry ==
    /\ pc = "download_fetched"
    /\ ~r.ok
    /\ \E res \in forward_request(target, FALSE, FALSE) :
        /\ attempts' = Append(attempts, Attempt(target, FALSE, FALSE, res))
        /\ r' = res
        /\ IF res.ok
           THEN pc' = pc /\ resp' = resp
           ELSE pc' = "done" /\ resp' = ErrorResp(502, "upstream_error", <<"U","p","s","t","r","e","a","m"," ","e","r","r","o","r">>)
    /\ UNCHANGED <<route, u, expected, hops, target>>

\* lines 114-150
DownloadRespond ==
    /\ pc = "download_fetched"
    /\ r.ok
    /\ LET content_type == Lower(IF IsNone(r.content_type) THEN <<"a","p","p","l","i","c","a","t","i","o","n","/","o","c","t","e","t","-","s","t","r","e","a","m">> ELSE r.content_type[1])
           filename == filename_of(target)
       IN resp' = IF is_manifest(target, content_type)
                  THEN IF ~r.readable \/ rewrite_raises(r.text, target)
                       THEN ErrorResp(500, "rewrite_failed", <<"F","a","i","l","e","d"," ","t","o"," ","r","e","w","r","i","t","e"," ","m","a","n","i","f","e","s","t">>)
                       ELSE DownloadPlaylistResponse(rewrite(r.text, target), filename)
                  ELSE DownloadBinaryResponse(r, content_type, filename, attempts[Len(attempts)].stream)
    /\ pc' = "done"
    /\ UNCHANGED <<route, u, expected, hops, target, attempts, r>>

Next ==
    \/ ClientRequest
    \/ ClientFollow
    \/ ProxyStart
    \/ ProxyRetry
    \/ ProxyRespond
    \/ DownloadStart
    \/ DownloadRetry
    \/ DownloadRespond

Spec == Init /\ [][Next]_vars

(***************************************************************************)
(* Properties.                                                             *)
(***************************************************************************)
Usable == ~IsNone(u) /\ u[1] # <<>>

Answered == pc = "done" /\ resp.kind \in {"playlist", "binary", "rewrite_failed"}

AbsoluteURL(t) == urlsplit(t, <<>>).scheme # <<>> /\ urlsplit(t, <<>>).netloc # <<>>

\* C2: no fetch is attempted unless the target is a valid absolute URL; a request whose u
\* is missing, empty or no absolute URL ends in 400 without any fetch.
C2_NoFetchWithoutValidTarget ==
    /\ attempts # <<>> => AbsoluteURL(attempts[1].url)
    /\ pc = "done" /\ (~Usable \/ ~AbsoluteURL(unquote(u[1]))) => resp.status = 400 /\ attempts = <<>>

\* C3: when a reference emitted by the rewriter is requested from /proxy, the target that
\* is fetched is exactly the absolute URL the rewriter embedded.
C3_ReferenceRoundTrip == pc \in {"proxy_fetched", "done"} /\ ~IsNone(expected) => target = expected[1]

\* C4: a rewritten playlist has as many lines as the input; empty and # lines are unchanged,
\* every other line is the /proxy?u= reference built from the same input line.
C4_LineForLine ==
    pc = "done" /\ resp.kind = "playlist" =>
        /\ Len(Splitlines(resp.body)) = Len(Splitlines(r.text))
        /\ \A i \in 1..Len(Splitlines(r.text)) :
            /\ i <= Len(Splitlines(resp.body))
            /\ IF Splitlines(r.text)[i] = <<>> \/ StartsWith(Splitlines(r.text)[i], <<"#">>)
               THEN Splitlines(resp.body)[i] = Splitlines(r.text)[i]
               ELSE Splitlines(resp.body)[i] = <<"/","p","r","o","x","y","?","u","=">> \o quote(absu_of(Splitlines(r.text)[i], base_of(target)))

\* C5: after a successful fetch the status is 200 for a rewritten playlist, whatever the
\* upstream status, and the upstream status for a binary resource, in both modes.
C5_StatusRule ==
    pc = "done" =>
        /\ resp.kind = "playlist" => resp.status = 200
        /\ resp.kind = "binary" => resp.status = r.status_code

\* C5 witness: a binary resource with upstream status 206 has been relayed
C5_Witness == pc = "done" /\ resp.kind = "binary" /\ r.ok /\ r.status_code = 206

\* the last segment of the path of t (the part before ?), percent-decoded, or download
PathFilename(t) == or_download(unquote(Last(Split(BeforeChar(t, "?"), "/"))))

\* C6: the Content-Disposition filename of /download is the last segment of the path of
\* the target, the query string stripped, percent-decoded, or download when empty.
C6_FilenameFromPath == pc = "done" /\ route = "download" /\ ~IsNone(resp.disposition) => resp.disposition[1] = PathFilename(target)

Expected7 == <<"#","E","X","T","M","3","U","\n","#","E","X","T","-","X","-","V","E","R","S","I","O","N",":","3","\n","/","p","r","o","x","y","?","u","=","h","t","t","p","s","%","3","A","%","2","F","%","2","F","o","r","i","g","i","n",".","e","x","a","m","p","l","e",".","c","o","m","%","2","F","p","a","t","h","%","2","F","s","e","g","1",".","t","s","\n","/","p","r","o","x","y","?","u","=","h","t","t","p","s","%","3","A","%","2","F","%","2","F","c","d","n",".","e","x","a","m","p","l","e",".","c","o","m","%","2","F","s","e","g","2",".","t","s","\n">>

\* C7: the playlist of scenario 1, fetched from its target, is rewritten to exactly the
\* expected text, the final newline included.
C7_Scenario1 == pc = "done" /\ resp.kind = "playlist" /\ target = Target7 /\ r.text = Text7 => resp.body = Expected7

\* the path of t ends in .m3u8 or the upstream Content-Type holds mpegurl, both without regard to case
PlaylistByPath(t, ct) == EndsWith(Lower(urlsplit(t, <<>>).path), <<".","m","3","u","8">>) \/ (~IsNone(ct) /\ Contains(Lower(ct[1]), <<"m","p","e","g","u","r","l">>))

\* C8: a fetched resource is treated as a playlist exactly when the path of the target
\* ends in .m3u8 or the upstream Content-Type contains mpegurl; otherwise as binary.
C8_Classification == Answered => (resp.kind # "binary" <=> PlaylistByPath(target, r.content_type))

\* C9: a binary response comes from a streaming fetch and its body is lazy; a buffered
\* fetch is only used for what ends up a playlist in download mode.
C9_BinaryIsStreamed ==
    Answered =>
        /\ resp.kind = "binary" => attempts[Len(attempts)].stream /\ resp.lazy
        /\ ~attempts[Len(attempts)].stream => route = "download" /\ resp.kind # "binary"

\* C10: a binary response carries the upstream Content-Type unchanged, or
\* application/octet-stream when there is none; a rewritten playlist carries
\* application/vnd.apple.mpegurl.
C10_ContentType ==
    pc = "done" =>
        /\ resp.kind = "binary" => resp.content_type = IF IsNone(r.content_type) THEN Some(<<"a","p","p","l","i","c","a","t","i","o","n","/","o","c","t","e","t","-","s","t","r","e","a","m">>) ELSE r.content_type
        /\ resp.kind = "playlist" => resp.content_type = Some(<<"a","p","p","l","i","c","a","t","i","o","n","/","v","n","d",".","a","p","p","l","e",".","m","p","e","g","u","r","l">>)

====
